---- MODULE Spec2Model ----
(***************************************************************************)
(* gsmmodem/dcs.py: classification of the SMS Data Coding Scheme octet     *)
(* (dcsToCharset) and dispatch of a hex payload to the decoder the         *)
(* classification selects (decodeWithDcs).                                 *)
(*                                                                         *)
(* Both functions are stateless.  A behaviour is one call: Init draws the  *)
(* arguments, one action applies dcsToCharset, the other decodeWithDcs.    *)
(* A call's outcome is either a returned value or a raised exception; the  *)
(* messages handed to logger.debug and the calls made to the pdu decoders  *)
(* are recorded in order.                                                  *)
(***************************************************************************)
EXTENDS Integers, Sequences, FiniteSets, TLC

VARIABLES pc, dcs, data, logger, outcome, log, calls

vars == <<pc, dcs, data, logger, outcome, log, calls>>

(* ---------------------------- bounds ----------------------------------- *)

\* longest payload string drawn for a call
MaxLen == 3

\* characters a payload string is drawn from: two hex digits, a character
\* that is not a hex digit, and white space
PayloadChars == {"0", "A", "g", " "}

(* ---------------------------- values ----------------------------------- *)

\* class Charset(Enum)
Charset == {"GSM_7_BIT", "EIGHT_BIT_DATA", "UCS2", "RESERVED", "UNDEFINED"}

\* Python's None (the value of a call that falls off the end of a function,
\* and the default of the logger parameter)
None == "None"

\* a logging.Logger object: it has a debug method and is truthy
Logger == "Logger"

\* the dcs argument: one octet
DcsValues == 0..255

RECURSIVE StringsUpTo(_)
StringsUpTo(n) ==
    IF n = 0 THEN {<<>>}
    ELSE LET shorter == StringsUpTo(n - 1)
         IN  shorter \cup {Append(s, c) : s \in {t \in shorter : Len(t) = n - 1},
                                          c \in PayloadChars}

\* the data argument: a str, as the sequence of its characters
Payloads == StringsUpTo(MaxLen)

\* how a call ends
Return(v) == [kind |-> "return", value |-> v]
Raise(e) == [kind |-> "raise", exc |-> e]

(* ------------------------- dcsToCharset -------------------------------- *)

\* variant of bits_7t4 that shifts by 3: dcs >> 3, kept to four bits
bits_7t4_shift3(d) == (d \div 8) % 16

\* bits_7t4 = dcs >> 4
bits_7t4(d) == d \div 16

\* bits_3t0 = dcs & 0x0f
bits_3t0(d) == d % 16

\* variant of generalDataCoding that indexes by bits 1-0: bits_3t0 & 0b11
generalDataCoding_low2(sub) ==
    <<"GSM_7_BIT", "EIGHT_BIT_DATA", "UCS2", "RESERVED">>[(sub % 4) + 1]

\* [GSM_7_BIT, EIGHT_BIT_DATA, UCS2, RESERVED][bits_3t0 >> 2] under
\* `elif bits_7t4 <= 0b0111`
generalDataCoding(sub) ==
    <<"GSM_7_BIT", "EIGHT_BIT_DATA", "UCS2", "RESERVED">>[(sub \div 4) + 1]

\* the same list indexed the same way under `elif bits_7t4 == 0b1001`
userDataHeaderCoding(sub) ==
    <<"GSM_7_BIT", "EIGHT_BIT_DATA", "UCS2", "RESERVED">>[(sub \div 4) + 1]

\* the body of `elif bits_7t4 <= 0b1111`: bit2 is computed, then either
\* branch evaluates a Charset member as an expression statement and the
\* function ends without a return statement
dataCodingMessageClass(sub) ==
    LET bit2 == (sub \div 4) % 2
    IN  IF bit2 # 0 THEN Return(None) ELSE Return(None)

\* the name bits3t0 as dcsToCharset can look it up: the local is named
\* bits_3t0, and the module binds only Enum, auto, Charset, the three pdu
\* functions and the two functions defined here, so the lookup raises
bits3t0 == Raise("NameError")

\* the body of `elif bits_7t4 <= 0b0001`: every path starts by evaluating
\* `bits3t0 == 0b0000`
languageIndication(sub) ==
    IF bits3t0.kind = "raise" THEN bits3t0
    ELSE IF bits3t0.value = 0 THEN Return("GSM_7_BIT")
    ELSE IF bits3t0.value = 1 THEN Return("UCS2")
    ELSE Return("UNDEFINED")

dcsToCharset(d) ==
    LET g == bits_7t4(d)
        sub == bits_3t0(d)
    IN  IF g <= 0 THEN Return("GSM_7_BIT")
        ELSE IF g <= 1 THEN languageIndication(sub)
        ELSE IF g = 2 \/ g = 3 THEN Return("GSM_7_BIT")
        ELSE IF g <= 7 THEN Return(generalDataCoding(sub))
        ELSE IF g = 8 THEN Return("RESERVED")
        ELSE IF g = 9 THEN Return(userDataHeaderCoding(sub))
        ELSE IF g <= 12 THEN Return("RESERVED")
        ELSE IF g <= 13 THEN Return("RESERVED")
        ELSE IF g <= 14 THEN Return("RESERVED")
        ELSE IF g <= 15 THEN dataCodingMessageClass(sub)
        ELSE Return(None)

(* ------------------------- decodeWithDcs ------------------------------- *)

\* value of one hexadecimal digit
HexValue(c) ==
    CASE c = "0" -> 0 [] c = "1" -> 1 [] c = "2" -> 2 [] c = "3" -> 3
      [] c = "4" -> 4 [] c = "5" -> 5 [] c = "6" -> 6 [] c = "7" -> 7
      [] c = "8" -> 8 [] c = "9" -> 9
      [] c \in {"a", "A"} -> 10 [] c \in {"b", "B"} -> 11
      [] c \in {"c", "C"} -> 12 [] c \in {"d", "D"} -> 13
      [] c \in {"e", "E"} -> 14 [] c \in {"f", "F"} -> 15
      [] OTHER -> 16

IsSpace(c) == c = " "

\* bytes.fromhex(data): white space before a pair of digits is skipped;
\* what follows must be two hexadecimal digits, or ValueError is raised.
\* ok tells whether the string parsed, bytes are the octets parsed
RECURSIVE fromhex(_)
fromhex(s) ==
    IF s = <<>> THEN [ok |-> TRUE, bytes |-> <<>>]
    ELSE IF IsSpace(Head(s)) THEN fromhex(Tail(s))
    ELSE IF Len(s) < 2 \/ HexValue(s[1]) >= 16 \/ HexValue(s[2]) >= 16
         THEN [ok |-> FALSE, bytes |-> <<>>]
    ELSE LET rest == fromhex(Tail(Tail(s)))
         IN  IF rest.ok
             THEN [ok |-> TRUE,
                   bytes |-> <<16 * HexValue(s[1]) + HexValue(s[2])>> \o rest.bytes]
             ELSE rest

\* the pdu module's decoders are outside this file: a call is recorded with
\* its arguments and its result stands for whatever the decoder computes
unpackSeptets(b) == [by |-> "unpackSeptets", of |-> b]
decodeGsm7(septets) == [by |-> "decodeGsm7", of |-> septets]
decodeUcs2(b, n) == [by |-> "decodeUcs2", of |-> b, numBytes |-> n]

\* the str passed in as data, handed back as it is
Same(s) == [by |-> "data", of |-> s]

\* what one call of decodeWithDcs leaves behind
Done(o, l, c) == [outcome |-> o, log |-> l, calls |-> c]

\* logger.debug(...) on a logger that is None
debugOnNone == Raise("AttributeError")

FallbackMsg == "decodeWithDcs(): Unable to determine the encoding from the DCS data, returning the data as if it is 8-bit data anyway."

\* variant of dispatch whose else branch logs nothing
dispatch_silent(charset, d, dataBytes, lg, l) ==
    IF charset = "GSM_7_BIT"
    THEN Done(Return(decodeGsm7(unpackSeptets(dataBytes))), l,
              <<unpackSeptets(dataBytes), decodeGsm7(unpackSeptets(dataBytes))>>)
    ELSE IF charset = "UCS2"
    THEN Done(Return(decodeUcs2(dataBytes, Len(dataBytes))), l,
              <<decodeUcs2(dataBytes, Len(dataBytes))>>)
    ELSE Done(Return(Same(d)), l, <<>>)

\* variant of dispatch that decodes a charset of None as GSM 7 bit
dispatch_noneAsGsm7(charset, d, dataBytes, lg, l) ==
    IF charset = "GSM_7_BIT" \/ charset = None
    THEN Done(Return(decodeGsm7(unpackSeptets(dataBytes))), l,
              <<unpackSeptets(dataBytes), decodeGsm7(unpackSeptets(dataBytes))>>)
    ELSE IF charset = "UCS2"
    THEN Done(Return(decodeUcs2(dataBytes, Len(dataBytes))), l,
              <<decodeUcs2(dataBytes, Len(dataBytes))>>)
    ELSE IF charset = "EIGHT_BIT_DATA"
    THEN Done(Return(Same(d)), l, <<>>)
    ELSE Done(Return(Same(d)),
              IF lg # None THEN Append(l, [msg |-> FallbackMsg]) ELSE l,
              <<>>)

\* `if charset == ... elif ... else ...; return retval`: l is what has been
\* logged so far, lg the logger
dispatch(charset, d, dataBytes, lg, l) ==
    IF charset = "GSM_7_BIT"
    THEN Done(Return(decodeGsm7(unpackSeptets(dataBytes))), l,
              <<unpackSeptets(dataBytes), decodeGsm7(unpackSeptets(dataBytes))>>)
    ELSE IF charset = "UCS2"
    THEN Done(Return(decodeUcs2(dataBytes, Len(dataBytes))), l,
              <<decodeUcs2(dataBytes, Len(dataBytes))>>)
    ELSE IF charset = "EIGHT_BIT_DATA"
    THEN Done(Return(Same(d)), l, <<>>)
    ELSE Done(Return(Same(d)),
              IF lg # None THEN Append(l, [msg |-> FallbackMsg]) ELSE l,
              <<>>)

decodeWithDcs(d, code, lg) ==
    LET classified == dcsToCharset(code)
    IN  IF classified.kind = "raise" THEN Done(classified, <<>>, <<>>)
        ELSE IF lg = None THEN Done(debugOnNone, <<>>, <<>>)
        ELSE LET charset == classified.value
                 traced == << [msg |-> "dcs = ", arg |-> code],
                              [msg |-> "charset = ", arg |-> charset],
                              [msg |-> "data = ", arg |-> d] >>
                 parsed == fromhex(d)
             IN  IF ~parsed.ok THEN Done(Raise("ValueError"), traced, <<>>)
                 ELSE dispatch(charset, d, parsed.bytes, lg, traced)

(* --------------------------- the calls --------------------------------- *)

Init ==
    /\ pc = "ready"
    /\ dcs \in DcsValues
    /\ data \in Payloads
    /\ logger \in {None, Logger}
    /\ outcome = Return(None)
    /\ log = <<>>
    /\ calls = <<>>

\* charset = dcsToCharset(dcs)
Classify ==
    /\ pc = "ready"
    /\ pc' = "classified"
    /\ outcome' = dcsToCharset(dcs)
    /\ UNCHANGED <<dcs, data, logger, log, calls>>

\* retval = decodeWithDcs(data, dcs, logger)
Decode ==
    /\ pc = "ready"
    /\ pc' = "decoded"
    /\ LET r == decodeWithDcs(data, dcs, logger)
       IN  /\ outcome' = r.outcome
           /\ log' = r.log
           /\ calls' = r.calls
    /\ UNCHANGED <<dcs, data, logger>>

Next == Classify \/ Decode

Spec == Init /\ [][Next]_vars

(* --------------------------- properties -------------------------------- *)

\* coding group of the call's dcs argument, as the 3GPP table names it
Group == dcs \div 16

\* the payload of the call is one bytes.fromhex accepts
WellFormed == fromhex(data).ok

\* number of raw-fallback diagnostics handed to the logger
Fallbacks == Cardinality({i \in DOMAIN log : log[i].msg = FallbackMsg})

\* the call returned the data string it was given
ReturnedData ==
    /\ outcome.kind = "return"
    /\ outcome.value.by = "data"
    /\ outcome.value.of = data

\* the ordered table of the general data coding groups
CharsetTable == <<"GSM_7_BIT", "EIGHT_BIT_DATA", "UCS2", "RESERVED">>

\* C1: for every dcs in 0..255 dcsToCharset ends normally and returns one of
\* the five Charset members, never None.
C1_ClassifierTotal ==
    pc = "classified" => outcome.kind = "return" /\ outcome.value \in Charset

\* C2: for every dcs in 0xF0..0xFF dcsToCharset returns EIGHT_BIT_DATA when
\* bit 2 is set and GSM_7_BIT when bit 2 is clear.
C2_Group1111 ==
    (pc = "classified" /\ dcs \in 240..255) =>
        /\ outcome.kind = "return"
        /\ outcome.value = (IF (dcs \div 4) % 2 = 1 THEN "EIGHT_BIT_DATA"
                            ELSE "GSM_7_BIT")

\* C3: for every dcs in 0x10..0x1F dcsToCharset returns GSM_7_BIT for low
\* nibble 0000, UCS2 for low nibble 0001, UNDEFINED for any other low nibble.
C3_Group0001 ==
    (pc = "classified" /\ dcs \in 16..31) =>
        /\ outcome.kind = "return"
        /\ outcome.value = (IF dcs % 16 = 0 THEN "GSM_7_BIT"
                            ELSE IF dcs % 16 = 1 THEN "UCS2"
                            ELSE "UNDEFINED")

\* C4: for every dcs of group 0100..0111 or 1001 dcsToCharset returns the
\* entry ((dcs & 0xF) >> 2) of [GSM_7_BIT, EIGHT_BIT_DATA, UCS2, RESERVED],
\* and every other dcs of these groups with the same bits 3-2 is classified
\* the same.
C4_TableLookup ==
    (pc = "classified" /\ Group \in (4..7) \cup {9}) =>
        /\ outcome = Return(CharsetTable[((dcs % 16) \div 4) + 1])
        /\ \A other \in DcsValues :
              (/\ other \div 16 \in (4..7) \cup {9}
               /\ (other \div 4) % 4 = (dcs \div 4) % 4)
              => dcsToCharset(other) = outcome

C4_Witness ==
    pc = "classified" /\ dcs = 72 /\ outcome = Return("UCS2")

\* C5: whatever the low nibble, dcsToCharset returns GSM_7_BIT for groups
\* 0000, 0010, 0011 and RESERVED for groups 1000, 1010, 1011, 1100, 1101,
\* 1110.
C5_FixedGroups ==
    pc = "classified" =>
        /\ Group \in {0, 2, 3} => outcome = Return("GSM_7_BIT")
        /\ Group \in {8, 10, 11, 12, 13, 14} => outcome = Return("RESERVED")

C5_Witness ==
    pc = "classified" /\ dcs = 8 /\ outcome = Return("GSM_7_BIT")

\* C6: for every dcs, decodeWithDcs on a payload bytes.fromhex rejects ends
\* in the hex-parsing error (ValueError) and in nothing else.
C6_MalformedPayload ==
    (pc = "decoded" /\ ~WellFormed) =>
        outcome.kind = "raise" /\ outcome.exc = "ValueError"

\* C7: when dcsToCharset returns RESERVED or UNDEFINED, the payload parses
\* and a logger is given, decodeWithDcs returns the data string unchanged,
\* raises nothing, calls no decoder and logs the raw-fallback diagnostic
\* exactly once.
C7_RawFallback ==
    (/\ pc = "decoded"
     /\ logger # None
     /\ WellFormed
     /\ dcsToCharset(dcs).kind = "return"
     /\ dcsToCharset(dcs).value \in {"RESERVED", "UNDEFINED"}) =>
        /\ ReturnedData
        /\ calls = <<>>
        /\ Fallbacks = 1

C7_Witness ==
    /\ pc = "decoded"
    /\ logger = Logger
    /\ dcs = 128
    /\ data = <<"0", "A">>
    /\ ReturnedData
    /\ Fallbacks = 1

\* C8: a call of decodeWithDcs with no logger and a payload that parses does
\* not fault, and returns what the same call with a logger returns.
C8_LoggerOptional ==
    (pc = "decoded" /\ logger = None /\ WellFormed) =>
        /\ outcome.kind = "return"
        /\ decodeWithDcs(data, dcs, Logger).outcome.kind = "return"
        /\ outcome.value.by = decodeWithDcs(data, dcs, Logger).outcome.value.by
        /\ outcome = decodeWithDcs(data, dcs, Logger).outcome

\* C9: for every payload that parses, decodeWithDcs takes the decoder path
\* of the tag dcsToCharset returned: GSM_7_BIT calls unpackSeptets on the
\* bytes, decodeGsm7 on the septets and returns that text; UCS2 calls
\* decodeUcs2 with the bytes and their count and returns that text;
\* EIGHT_BIT_DATA calls no decoder, returns the data string and logs no
\* raw-fallback diagnostic.  A call takes at most one decoder path.
C9_Routing ==
    (/\ pc = "decoded"
     /\ WellFormed
     /\ dcsToCharset(dcs).kind = "return") =>
        LET tag == dcsToCharset(dcs).value
            dataBytes == fromhex(data).bytes
        IN  /\ tag = "GSM_7_BIT" =>
                 /\ calls = <<unpackSeptets(dataBytes),
                              decodeGsm7(unpackSeptets(dataBytes))>>
                 /\ outcome.kind = "return"
                 /\ outcome.value.by = "decodeGsm7"
                 /\ outcome.value = decodeGsm7(unpackSeptets(dataBytes))
            /\ tag = "UCS2" =>
                 /\ calls = <<decodeUcs2(dataBytes, Len(dataBytes))>>
                 /\ outcome.kind = "return"
                 /\ outcome.value.by = "decodeUcs2"
                 /\ outcome.value = decodeUcs2(dataBytes, Len(dataBytes))
            /\ tag = "EIGHT_BIT_DATA" =>
                 /\ calls = <<>>
                 /\ ReturnedData
                 /\ Fallbacks = 0
            /\ ~ (/\ \E i \in DOMAIN calls : calls[i].by = "decodeGsm7"
                  /\ \E i \in DOMAIN calls : calls[i].by = "decodeUcs2")

\* C10: for every dcs in 0xF0..0xFF and every payload that parses,
\* decodeWithDcs with a logger returns the data string unchanged, logs the
\* 'Unable to determine the encoding' diagnostic and calls neither
\* unpackSeptets/decodeGsm7 nor decodeUcs2, whatever bit 2 of dcs is.
C10_Group1111Fallback ==
    (/\ pc = "decoded"
     /\ logger # None
     /\ dcs \in 240..255
     /\ WellFormed) =>
        /\ ReturnedData
        /\ \E i \in DOMAIN log : log[i].msg = FallbackMsg
        /\ calls = <<>>

C10_Witness ==
    /\ pc = "decoded"
    /\ logger = Logger
    /\ dcs = 244
    /\ data = <<"A", "0">>
    /\ ReturnedData
    /\ Fallbacks = 1
    /\ calls = <<>>

====
